---- MODULE Spec2Model ----
(***************************************************************************)
(* The event scheduler of NanoBoyAdvance (src/nba/src/scheduler.hpp): a    *)
(* fixed-capacity binary min-heap of timestamped callbacks and the cycle   *)
(* counter timestamp_now.  The scheduler's fields are the variables heap,  *)
(* handle, timestamp, callback, heap_size and timestamp_now; the position  *)
(* of the single simulation thread is pc, with the locals of AddCycles and *)
(* Step that live across a callback (timestamp_next, event).  The other    *)
(* variables record the history the properties speak about.                *)
(*                                                                         *)
(* u64 is scaled to TsBits bits and int to IntBits bits; all arithmetic on *)
(* timestamps is taken modulo 2^TsBits as the code takes it modulo 2^64.   *)
(*                                                                         *)
(* The second part is the video unit's memory accessors                    *)
(* (src/nba/src/hw/ppu/ppu.hpp): the palette, object-attribute and video   *)
(* memories, the display mode, and what each accessor call touches.        *)
(***************************************************************************)
EXTENDS Integers, Sequences, FiniteSets, TLC

kMaxEvents == 64

\* the widths of u64 and of int in the model
TsBits == 3
IntBits == 3
\* the calls the host and the callbacks make in one behaviour
MaxAdds == 3
MaxTime == 2
MaxResets == 1
\* the events the host adds to fill the heap
MaxHeapAdds == 5
\* the Add calls made to exhaust the pool, and how many of them vary the delay
MaxCapAdds == 66
MaxCapVaried == 3

RECURSIVE Pow2(_)
Pow2(n) == IF n = 0 THEN 1 ELSE 2 * Pow2(n - 1)

U64Mod == Pow2(TsBits)
\* std::numeric_limits<u64>::max()
U64Max == U64Mod - 1
\* the largest value of int
IntMax == Pow2(IntBits - 1) - 1

\* u64 arithmetic wraps
U64(x) == x % U64Mod

\* the conversion u64 -> int of GetRemainingCycleCount: the low IntBits bits,
\* read as a two's complement number
ToInt(x) ==
  LET low == x % Pow2(IntBits)
  IN  IF low > IntMax THEN low - Pow2(IntBits) ELSE low

Slots == 0 .. (kMaxEvents - 1)

\* the callback of the sentinel event; the callbacks of the caller are 1, 2, ...
SentinelCb == 0
\* the value of a default-constructed std::function
NoCb == -1

VARIABLES
  heap,            \* heap[i]: the Event* stored at index i of the array
  handle,          \* handle[e]: Event::handle of the event object e
  timestamp,       \* timestamp[e]: Event::timestamp
  callback,        \* callback[e]: Event::callback
  heap_size,
  timestamp_now,
  pc,              \* "idle", or "callback" while Step runs event->callback(0)
  timestamp_next,  \* the local of AddCycles / the parameter of Step
  event,           \* the local of Step: the event object being fired
  fatal,           \* "none", or the failed assertion that ended the program
  status,          \* per added callback: pending, firing, fired, cancelled, dropped
  delayOf,         \* per added callback: the delay given to Add
  by,              \* per added callback: the callback that added it, 0 for the host
  due,             \* per added callback: the timestamp it was scheduled for
  ptr,             \* per added callback: the Event* that Add returned
  fireCount,       \* per added callback: how often it was invoked
  fired,           \* the callbacks invoked by the current (or last) AddCycles, in order
  firing,          \* the callback that is running, 0 when none is
  deadline,        \* now + cycles of the current (or last) AddCycles, as a number
  sift,            \* the branch the last Remove took: "up", "down", "none" before any
  resets,          \* the number of Reset calls made after the constructor's
  stale            \* Cancel has been called with the handle of no pending event

\* The video unit (src/nba/src/hw/ppu/ppu.hpp): its three memories and the
\* display mode that its accessors read.  A memory is the function from the
\* offsets written so far to their bytes; a byte never written holds fill.
VARIABLES
  pram,            \* u8 pram[0x400]
  oam,             \* u8 oam[0x400]
  vram,            \* u8 vram[0x18000]
  fill,            \* the byte the memories hold after construction
  mode,            \* mmio.dispcnt.mode
  syncs,           \* the Sync() calls of the last accessor call
  seen,            \* the memories as the last Sync() found them
  access,          \* the last accessor call and the bytes it touched
  accesses         \* the number of accessor calls made

ppuVars == <<pram, oam, vram, fill, mode, syncs, seen, access, accesses>>

vars == <<heap, handle, timestamp, callback, heap_size, timestamp_now,
          pc, timestamp_next, event, fatal,
          status, delayOf, by, due, ptr, fireCount, fired, firing, deadline,
          sift, resets, stale,
          pram, oam, vram, fill, mode, syncs, seen, access, accesses>>

\* the scheduler's fields as one record, for the operators below
Self ==
  [heap |-> heap, handle |-> handle, timestamp |-> timestamp, callback |-> callback,
   heap_size |-> heap_size, timestamp_now |-> timestamp_now]

Parent(n) == IF n >= 1 THEN (n - 1) \div 2 ELSE 0
LeftChild(n) == n * 2 + 1
RightChild(n) == n * 2 + 2

\* heap[i]->timestamp
TsAt(s, i) == s.timestamp[s.heap[i]]

\* Swap that leaves the handles of the two events as they were
SwapHeapOnly(s, i, j) ==
  [s EXCEPT !.heap = [s.heap EXCEPT ![i] = s.heap[j], ![j] = s.heap[i]]]

Swap(s, i, j) ==
  LET h == [s.heap EXCEPT ![i] = s.heap[j], ![j] = s.heap[i]]
      h1 == [s.handle EXCEPT ![h[i]] = i]
      h2 == [h1 EXCEPT ![h[j]] = j]
  IN  [s EXCEPT !.heap = h, !.handle = h2]

\* the loop with a single iteration
SiftUpOnce(s, n) ==
  LET p == Parent(n)
  IN  IF n # 0 /\ TsAt(s, p) > TsAt(s, n) THEN Swap(s, n, p) ELSE s

\* the loop with >= for >: an event passes the events of its own timestamp
RECURSIVE SiftUpPastEqual(_, _)
SiftUpPastEqual(s, n) ==
  LET p == Parent(n)
  IN  IF n # 0 /\ TsAt(s, p) >= TsAt(s, n)
      THEN SiftUpPastEqual(Swap(s, n, p), p)
      ELSE s

\* the loop of Add and of Remove that moves the event at n towards the root
RECURSIVE SiftUp(_, _)
SiftUp(s, n) ==
  LET p == Parent(n)
  IN  IF n # 0 /\ TsAt(s, p) > TsAt(s, n)
      THEN SiftUp(Swap(s, n, p), p)
      ELSE s

\* Heapify with the right child tested only when the left child was not swapped
RECURSIVE HeapifyElseIf(_, _)
HeapifyElseIf(s, n) ==
  LET l == LeftChild(n)
      r == RightChild(n)
  IN  IF l < s.heap_size /\ TsAt(s, l) < TsAt(s, n)
      THEN HeapifyElseIf(Swap(s, l, n), l)
      ELSE IF r < s.heap_size /\ TsAt(s, r) < TsAt(s, n)
           THEN HeapifyElseIf(Swap(s, r, n), r)
           ELSE s

\* Heapify with the right child tested before the left one
RECURSIVE HeapifyRightFirst(_, _)
HeapifyRightFirst(s, n) ==
  LET l == LeftChild(n)
      r == RightChild(n)
      s1 == IF r < s.heap_size /\ TsAt(s, r) < TsAt(s, n)
            THEN HeapifyRightFirst(Swap(s, r, n), r)
            ELSE s
  IN  IF l < s1.heap_size /\ TsAt(s1, l) < TsAt(s1, n)
      THEN HeapifyRightFirst(Swap(s1, l, n), l)
      ELSE s1

RECURSIVE Heapify(_, _)
Heapify(s, n) ==
  LET l == LeftChild(n)
      r == RightChild(n)
      s1 == IF l < s.heap_size /\ TsAt(s, l) < TsAt(s, n)
            THEN Heapify(Swap(s, l, n), l)
            ELSE s
  IN  IF r < s1.heap_size /\ TsAt(s1, r) < TsAt(s1, n)
      THEN Heapify(Swap(s1, r, n), r)
      ELSE s1

\* Remove that forgets the swap: the last event is dropped instead of n
RemoveSwapLast(s, n) == [s EXCEPT !.heap_size = s.heap_size - 1]

\* Remove, up to its test: the last event has been swapped into n
RemoveSwap(s, n) ==
  LET s1 == [s EXCEPT !.heap_size = s.heap_size - 1]
  IN  Swap(s1, n, s1.heap_size)

\* the test of Remove
RemoveSiftsUp(s, n) ==
  n # 0 /\ TsAt(RemoveSwap(s, n), Parent(n)) > TsAt(RemoveSwap(s, n), n)

Remove(s, n) ==
  IF RemoveSiftsUp(s, n)
  THEN SiftUp(RemoveSwap(s, n), n)
  ELSE Heapify(RemoveSwap(s, n), n)

\* the branch Remove(n) takes, as recorded in sift
Branch(s, n) == IF RemoveSiftsUp(s, n) THEN "up" ELSE "down"

\* Add that takes the delay for the timestamp
AddAbsolute(s, delay, cb) ==
  LET n == s.heap_size
      e == s.heap[n]
      s1 == [s EXCEPT !.heap_size = n + 1,
                      !.timestamp[e] = U64(delay),
                      !.callback[e] = cb]
  IN  SiftUp(s1, n)

\* Add, past its assertion: the scheduler after Add(delay, cb)
Add(s, delay, cb) ==
  LET n == s.heap_size
      e == s.heap[n]
      s1 == [s EXCEPT !.heap_size = n + 1,
                      !.timestamp[e] = U64(s.timestamp_now + delay),
                      !.callback[e] = cb]
  IN  SiftUp(s1, n)

\* the assertion with kMaxEvents - 1 events allowed
AddOverflowsEarly(s) == s.heap_size + 1 >= kMaxEvents

\* the assertion of Add fails: heap_size has been incremented beyond kMaxEvents
AddOverflows(s) == s.heap_size + 1 > kMaxEvents

Reset(s) ==
  Add([s EXCEPT !.heap_size = 0, !.timestamp_now = 0], U64Max, SentinelCb)

GetTimestampNow == timestamp_now
GetTimestampTarget == timestamp[heap[0]]
\* the difference taken the other way round
GetRemainingCycleCountReversed == ToInt(U64(GetTimestampNow - GetTimestampTarget))

GetRemainingCycleCount == ToInt(U64(GetTimestampTarget - GetTimestampNow))

\* Step setting timestamp_now to the deadline instead
StepNowDeadline(s, next) == next

\* the value Step gives timestamp_now before it calls the callback of the root
StepNow(s, next) == TsAt(s, 0)

\* the loop condition without the test of the timestamp
StepCondSize(s, next) == s.heap_size > 0

\* the loop condition with < for <=
StepCondStrict(s, next) == TsAt(s, 0) < next /\ s.heap_size > 0

\* the loop condition of Step
StepCond(s, next) == TsAt(s, 0) <= next /\ s.heap_size > 0

\* the scheduler's fields take the values of s
Commit(s) ==
  /\ heap' = s.heap
  /\ handle' = s.handle
  /\ timestamp' = s.timestamp
  /\ callback' = s.callback
  /\ heap_size' = s.heap_size
  /\ timestamp_now' = s.timestamp_now

Ids == 1 .. Len(status)
Pending == {id \in Ids : status[id] = "pending"}


\* the state after the constructor: every heap[i] is a zero-initialised Event
\* with handle i, then Reset()
Constructed ==
  Reset([heap |-> [i \in Slots |-> i],
         handle |-> [e \in Slots |-> e],
         timestamp |-> [e \in Slots |-> 0],
         callback |-> [e \in Slots |-> NoCb],
         heap_size |-> 0,
         timestamp_now |-> 0])

\* the scheduler after its constructor
SchedulerInit ==
  /\ heap = Constructed.heap
  /\ handle = Constructed.handle
  /\ timestamp = Constructed.timestamp
  /\ callback = Constructed.callback
  /\ heap_size = Constructed.heap_size
  /\ timestamp_now = Constructed.timestamp_now
  /\ pc = "idle"
  /\ timestamp_next = 0
  /\ event = 0
  /\ fatal = "none"
  /\ status = << >>
  /\ delayOf = << >>
  /\ by = << >>
  /\ due = << >>
  /\ ptr = << >>
  /\ fireCount = << >>
  /\ fired = << >>
  /\ firing = 0
  /\ deadline = 0
  /\ sift = "none"
  /\ resets = 0
  /\ stale = FALSE

\* an empty memory: no offset written
NoBytes == [o \in {} |-> 0]

\* before the first accessor call
NoAccess ==
  [op |-> "none", region |-> "none", width |-> 0, address |-> 0, value |-> 0,
   lo |-> 0, hi |-> -1]

\* the video unit after its constructor, its memories holding the byte f
PPUInit(f) ==
  /\ pram = NoBytes
  /\ oam = NoBytes
  /\ vram = NoBytes
  /\ fill = f
  /\ mode = 0
  /\ syncs = 0
  /\ seen = [pram |-> NoBytes, oam |-> NoBytes, vram |-> NoBytes]
  /\ access = NoAccess
  /\ accesses = 0

Init == SchedulerInit /\ PPUInit(0)

Running == fatal = "none"

\* Step, from the test of its loop on, with the scheduler being s: either the
\* root is due, timestamp_now becomes its timestamp and its callback is entered
\* (the sentinel's callback fails its assertion), or the loop ends and AddCycles
\* commits timestamp_next.  st and log are status and fired before the test.
Step(s, next, st, log) ==
  IF StepCond(s, next)
  THEN LET e == s.heap[0]
           cb == s.callback[e]
       IN  /\ Commit([s EXCEPT !.timestamp_now = StepNow(s, next)])
           /\ event' = e
           /\ pc' = "callback"
           /\ IF cb \in Ids
              THEN /\ fatal' = fatal
                   /\ firing' = cb
                   /\ fired' = Append(log, cb)
                   /\ fireCount' = [fireCount EXCEPT ![cb] = @ + 1]
                   /\ status' = [st EXCEPT ![cb] = IF @ = "pending" THEN "firing" ELSE @]
              ELSE /\ fatal' = IF cb = SentinelCb THEN "end of the event queue"
                                                  ELSE "bad_function_call"
                   /\ firing' = 0
                   /\ fired' = log
                   /\ fireCount' = fireCount
                   /\ status' = st
  ELSE /\ Commit([s EXCEPT !.timestamp_now = next])
       /\ pc' = "idle"
       /\ firing' = 0
       /\ fired' = log
       /\ status' = st
       /\ UNCHANGED <<event, fatal, fireCount>>

\* AddCycles(cycles), up to the first callback it runs or to its return
AddCycles(cycles) ==
  /\ Running /\ pc = "idle"
  /\ timestamp_now + cycles <= MaxTime
  /\ timestamp_now + cycles < U64Max
  /\ timestamp_next' = U64(timestamp_now + cycles)
  /\ deadline' = timestamp_now + cycles
  /\ Step(Self, timestamp_next', status, << >>)
  /\ UNCHANGED <<delayOf, by, due, ptr, sift, resets>>
  /\ UNCHANGED <<stale, ppuVars>>

\* the running callback returns: Step removes the event and tests its loop again
CallbackReturn ==
  /\ Running /\ pc = "callback"
  /\ Step(Remove(Self, handle[event]), timestamp_next,
          [status EXCEPT ![firing] = IF @ = "firing" THEN "fired" ELSE @],
          fired)
  /\ sift' = Branch(Self, handle[event])
  /\ UNCHANGED <<timestamp_next, deadline, delayOf, by, due, ptr, resets>>
  /\ UNCHANGED <<stale, ppuVars>>

\* Add(delay, callback), called by the host or by the running callback; the
\* callback is a new one, and now + delay does not wrap
CallAdd(d) ==
  /\ Running
  /\ timestamp_now + d <= U64Max
  /\ LET id == Len(status) + 1
     IN  IF AddOverflows(Self)
         THEN /\ heap_size' = heap_size + 1
              /\ fatal' = "maximum number of events"
              /\ UNCHANGED <<heap, handle, timestamp, callback, timestamp_now,
                             status, delayOf, by, due, ptr, fireCount>>
         ELSE /\ Commit(Add(Self, d, id))
              /\ fatal' = fatal
              /\ status' = Append(status, "pending")
              /\ delayOf' = Append(delayOf, d)
              /\ by' = Append(by, firing)
              /\ due' = Append(due, U64(timestamp_now + d))
              /\ ptr' = Append(ptr, heap[heap_size])
              /\ fireCount' = Append(fireCount, 0)
  /\ UNCHANGED <<pc, timestamp_next, event, fired, firing, deadline, sift, resets>>
  /\ UNCHANGED <<stale, ppuVars>>

\* Cancel(event) with the handle of a pending event, called by the host or by
\* the running callback
CallCancel(id) ==
  /\ Running
  /\ status[id] = "pending"
  /\ Commit(Remove(Self, handle[ptr[id]]))
  /\ status' = [status EXCEPT ![id] = "cancelled"]
  /\ sift' = Branch(Self, handle[ptr[id]])
  /\ UNCHANGED <<pc, timestamp_next, event, fatal, delayOf, by, due, ptr, fireCount,
                 fired, firing, deadline, resets>>
  /\ UNCHANGED <<stale, ppuVars>>

\* what Reset does to the recorded history: nothing that was pending is any more
Dropped == [id \in Ids |-> IF status[id] = "pending" THEN "dropped" ELSE status[id]]

\* Reset(), called by the host or by the running callback
CallReset ==
  /\ Running
  /\ resets < MaxResets
  /\ Commit(Reset(Self))
  /\ status' = Dropped
  /\ resets' = resets + 1
  /\ UNCHANGED <<pc, timestamp_next, event, fatal, delayOf, by, due, ptr, fireCount,
                 fired, firing, deadline, sift>>
  /\ UNCHANGED <<stale, ppuVars>>

\* Reset() called by the host between two AddCycles
HostReset == pc = "idle" /\ CallReset

\* Reset() called by the callback that AddCycles is running
CallbackReset == pc = "callback" /\ CallReset

\* the delays passed to Add
Delays == {0, 1, 2}
\* the cycles passed to AddCycles: an int that is not negative
Cycles == {c \in {0, 1, 2} : c <= IntMax}

Next ==
  \/ \E d \in Delays : Len(status) < MaxAdds /\ CallAdd(d)
  \/ \E id \in Ids : CallCancel(id)
  \/ \E c \in Cycles : AddCycles(c)
  \/ CallbackReturn

Spec == Init /\ [][Next]_vars

\* The same scheduler with more events and fewer delays: the host fills the
\* heap before the first AddCycles, so that Remove meets every shape of heap.
HeapDelays == 0 .. 1

NextHeap ==
  \/ \E d \in HeapDelays :
        Len(status) < MaxHeapAdds /\ pc = "idle" /\ timestamp_now = 0 /\ Pending = Ids /\ CallAdd(d)
  \/ \E id \in Ids : CallCancel(id)
  \/ \E c \in Cycles : AddCycles(c)
  \/ CallbackReturn

SpecHeap == Init /\ [][NextHeap]_vars

\* The scheduler with Reset called at any time, from inside a callback too.
NextReset ==
  \/ \E d \in Delays : Len(status) < MaxAdds /\ CallAdd(d)
  \/ \E id \in Ids : CallCancel(id)
  \/ \E c \in Cycles : AddCycles(c)
  \/ CallbackReturn
  \/ HostReset
  \/ CallbackReset

SpecReset == Init /\ [][NextReset]_vars

\* Cancel(event) with a handle that is stale: its event has fired or has been
\* cancelled, and the Event it names lies behind the heap or has been taken
\* by a later Add
CallCancelStale(id) ==
  /\ Running
  /\ ~stale
  /\ status[id] \in {"fired", "cancelled"}
  /\ Commit(Remove(Self, handle[ptr[id]]))
  /\ sift' = Branch(Self, handle[ptr[id]])
  /\ stale' = TRUE
  /\ UNCHANGED <<pc, timestamp_next, event, fatal, status, delayOf, by, due, ptr,
                 fireCount, fired, firing, deadline, resets>>
  /\ UNCHANGED ppuVars

\* The scheduler with a caller that keeps the handles of events that are no
\* longer pending and passes one of them to Cancel; the handles it holds do
\* not describe the heap after that call, where the behaviour is left.
NextStale ==
  \/ \E d \in Delays : ~stale /\ Len(status) < MaxAdds /\ CallAdd(d)
  \/ \E id \in Ids : ~stale /\ CallCancel(id)
  \/ \E c \in Cycles : ~stale /\ AddCycles(c)
  \/ ~stale /\ CallbackReturn
  \/ \E id \in Ids : CallCancelStale(id)

SpecStale == Init /\ [][NextStale]_vars

\* The scheduler filled to its capacity: the host adds events until Add fails
\* its assertion; among the first events it may cancel the one it added last.
NextCap ==
  \/ \E d \in HeapDelays :
        /\ Len(status) < MaxCapAdds
        /\ pc = "idle"
        /\ (d # 0 => Len(status) < MaxCapVaried)
        /\ CallAdd(d)
  \/ /\ Len(status) \in 1 .. MaxCapVaried
     /\ CallCancel(Len(status))

SpecCap == Init /\ [][NextCap]_vars

(***************************************************************************)
(* The memory accessors of the video unit.                                 *)
(***************************************************************************)

\* the accessor calls made in one behaviour
MaxAccesses == 2

\* u8 pram[0x00400], u8 oam[0x00400], u8 vram[0x18000]
PRAMSize == \h400
OAMSize == \h400
VRAMSize == \h18000

\* the largest address: u32 without its top bit, the accessors masking the
\* high bits of an address away
U32Max == \h7FFFFFFF

\* a & b
RECURSIVE BitAnd(_, _)
BitAnd(a, b) ==
  IF a = 0 \/ b = 0 THEN 0
  ELSE (a % 2) * (b % 2) + 2 * BitAnd(a \div 2, b \div 2)

\* ~x, converted to the type of the address
BitNot(x) == U32Max - x

\* the widths of u8, u16 and u32, in bytes
Widths == {1, 2, 4}

\* the byte at offset o of a memory
ByteAt(mem, o) == IF o \in DOMAIN mem THEN mem[o] ELSE fill

\* byte k of the value v, the least significant being byte 0
ByteOf(v, k) == (v \div Pow2(8 * k)) % 256

\* read<T>(data, offset): the w bytes at offset, the least significant first;
\* a byte beyond the array reads as junk
RECURSIVE read(_, _, _, _, _)
read(mem, size, offset, w, junk) ==
  IF w = 0 THEN 0
  ELSE (IF offset < size THEN ByteAt(mem, offset) ELSE junk)
         + 256 * read(mem, size, offset + 1, w - 1, junk)

\* write<T>(data, offset, value): the memory with the w bytes of value stored
\* at offset, the least significant first; a byte beyond the array is not part
\* of the memory
write(mem, size, offset, w, value) ==
  LET at == {o \in offset .. (offset + w - 1) : o < size}
  IN  [o \in DOMAIN mem \cup at |->
         IF o \in at THEN ByteOf(value, o - offset) ELSE mem[o]]

\* what a write accessor does to its memory: the memory after it and the
\* offsets lo .. hi it touched (none when lo > hi)
Stored(mem, size, offset, w, value) ==
  [mem |-> write(mem, size, offset, w, value), lo |-> offset, hi |-> offset + w - 1]

Discarded(mem) == [mem |-> mem, lo |-> 0, hi |-> -1]

\* the value and the offsets of a read accessor
Loaded(mem, size, offset, w, junk) ==
  [value |-> read(mem, size, offset, w, junk), lo |-> offset, hi |-> offset + w - 1]

ReadPRAMAt(mem, T, address, junk) ==
  Loaded(mem, PRAMSize, BitAnd(address, \h3FF), T, junk)

\* WritePRAM with a true 8-bit write
WritePRAMToByte(mem, T, address, value) ==
  Stored(mem, PRAMSize, BitAnd(address, \h3FF), T, value)

WritePRAMTo(mem, T, address, value) ==
  IF T = 1
  THEN Stored(mem, PRAMSize, BitAnd(address, \h3FE), 2, value * \h0101)
  ELSE Stored(mem, PRAMSize, BitAnd(address, \h3FF), T, value)

\* address &= 0x1FFFF; if (address >= 0x18000) address &= ~0x8000
VRAMAddress(address) ==
  LET a == BitAnd(address, \h1FFFF)
  IN  IF a >= \h18000 THEN BitAnd(a, BitNot(\h8000)) ELSE a

ReadVRAMAt(mem, T, address, junk) ==
  Loaded(mem, VRAMSize, VRAMAddress(address), T, junk)

\* the limit of the tile modes in every mode
VRAMLimitOfTiles(m) == \h10000

\* the limit of the 8-bit writes in the display mode m
VRAMLimit(m) == IF m >= 3 THEN \h14000 ELSE \h10000

WriteVRAMTo(mem, m, T, address, value) ==
  LET a == VRAMAddress(address)
  IN  IF T = 1
      THEN IF a < VRAMLimit(m)
           THEN Stored(mem, VRAMSize, BitAnd(a, BitNot(1)), 2, value * \h0101)
           ELSE Discarded(mem)
      ELSE Stored(mem, VRAMSize, a, T, value)

ReadOAMAt(mem, T, address, junk) ==
  Loaded(mem, OAMSize, BitAnd(address, \h3FF), T, junk)

\* WriteOAM without the test of the width
WriteOAMToAny(mem, T, address, value) ==
  Stored(mem, OAMSize, BitAnd(address, \h3FF), T, value)

WriteOAMTo(mem, T, address, value) ==
  IF T # 1
  THEN Stored(mem, OAMSize, BitAnd(address, \h3FF), T, value)
  ELSE Discarded(mem)

schedulerVars ==
  <<heap, handle, timestamp, callback, heap_size, timestamp_now,
    pc, timestamp_next, event, fatal,
    status, delayOf, by, due, ptr, fireCount, fired, firing, deadline,
    sift, resets, stale>>

\* Sync(): the renderer and the composer catch up to now, reading the three
\* memories as they are when it is called
Sync(p, o, v) == [pram |-> p, oam |-> o, vram |-> v]

SizeOf(region) ==
  CASE region = "pram" -> PRAMSize
    [] region = "oam" -> OAMSize
    [] region = "vram" -> VRAMSize
    [] OTHER -> 0

\* the last accessor call stayed inside its array
InBounds == access.lo > access.hi \/ access.hi < SizeOf(access.region)

\* an accessor can be called: an access beyond an array ends the behaviour
\* that the model follows
CanAccess == accesses < MaxAccesses /\ InBounds

\* the record of an accessor call
Accessed(op, region, T, address, value, r) ==
  /\ access' = [op |-> op, region |-> region, width |-> T, address |-> address,
                value |-> value, lo |-> r.lo, hi |-> r.hi]
  /\ accesses' = accesses + 1

\* the bytes that a read beyond the array can find there
Junk == {\h00, \h7F}
Beyond(r, size) == IF r.hi < size THEN {\h00} ELSE Junk

ReadPRAM(T, address) ==
  /\ CanAccess
  /\ \E junk \in Beyond(ReadPRAMAt(pram, T, address, 0), PRAMSize) :
       LET r == ReadPRAMAt(pram, T, address, junk)
       IN  Accessed("read", "pram", T, address, r.value, r)
  /\ syncs' = 0
  /\ UNCHANGED <<pram, oam, vram, fill, mode, seen>>
  /\ UNCHANGED schedulerVars

WritePRAM(T, address, value) ==
  /\ CanAccess
  /\ LET r == WritePRAMTo(pram, T, address, value)
     IN  /\ pram' = r.mem
         /\ Accessed("write", "pram", T, address, value, r)
  /\ seen' = Sync(pram', oam, vram)
  /\ syncs' = 1
  /\ UNCHANGED <<oam, vram, fill, mode>>
  /\ UNCHANGED schedulerVars

ReadVRAM(T, address) ==
  /\ CanAccess
  /\ \E junk \in Beyond(ReadVRAMAt(vram, T, address, 0), VRAMSize) :
       LET r == ReadVRAMAt(vram, T, address, junk)
       IN  Accessed("read", "vram", T, address, r.value, r)
  /\ syncs' = 0
  /\ UNCHANGED <<pram, oam, vram, fill, mode, seen>>
  /\ UNCHANGED schedulerVars

WriteVRAM(T, address, value) ==
  /\ CanAccess
  /\ LET r == WriteVRAMTo(vram, mode, T, address, value)
     IN  /\ vram' = r.mem
         /\ Accessed("write", "vram", T, address, value, r)
  /\ seen' = Sync(pram, oam, vram')
  /\ syncs' = 1
  /\ UNCHANGED <<pram, oam, fill, mode>>
  /\ UNCHANGED schedulerVars

ReadOAM(T, address) ==
  /\ CanAccess
  /\ \E junk \in Beyond(ReadOAMAt(oam, T, address, 0), OAMSize) :
       LET r == ReadOAMAt(oam, T, address, junk)
       IN  Accessed("read", "oam", T, address, r.value, r)
  /\ syncs' = 0
  /\ UNCHANGED <<pram, oam, vram, fill, mode, seen>>
  /\ UNCHANGED schedulerVars

WriteOAM(T, address, value) ==
  /\ CanAccess
  /\ LET r == WriteOAMTo(oam, T, address, value)
     IN  /\ oam' = r.mem
         /\ Accessed("write", "oam", T, address, value, r)
  /\ syncs' = 0
  /\ UNCHANGED <<pram, vram, fill, mode, seen>>
  /\ UNCHANGED schedulerVars

\* a write of the display control register sets the display mode
WriteDispcnt(m) ==
  /\ InBounds
  /\ mode # m
  /\ mode' = m
  /\ UNCHANGED <<pram, oam, vram, fill, syncs, seen, access, accesses>>
  /\ UNCHANGED schedulerVars

\* the inputs: addresses at the ends of the arrays, of the mirrored range of
\* the video memory and of the two limits of its 8-bit writes
PRAMAddresses == {\h05000001, \h050003FF, \h05000402}
VRAMAddresses ==
  {\h0600FFFF, \h06010001, \h06017FFE, \h06018001, \h0601BFFF, \h0601C000, \h7FFFFFFF}
OAMAddresses == {\h07000002, \h070003FF, \h07000401}
\* the values written and the bytes of construction: every byte is below
\* 0x80, for a 32-bit value to stay below 2^31
Values(T) == IF T = 1 THEN {\h5A} ELSE IF T = 2 THEN {\h4D6F} ELSE {\h12345678}
Modes == {0, 2, 3}
FillBytes == {\h00, \h6E}

NextPPU ==
  \/ \E T \in Widths, a \in PRAMAddresses : ReadPRAM(T, a)
  \/ \E T \in Widths, a \in PRAMAddresses : \E v \in Values(T) : WritePRAM(T, a, v)
  \/ \E T \in Widths, a \in VRAMAddresses : ReadVRAM(T, a)
  \/ \E T \in Widths, a \in VRAMAddresses : \E v \in Values(T) : WriteVRAM(T, a, v)
  \/ \E T \in Widths, a \in OAMAddresses : ReadOAM(T, a)
  \/ \E T \in Widths, a \in OAMAddresses : \E v \in Values(T) : WriteOAM(T, a, v)
  \/ \E m \in Modes : WriteDispcnt(m)

InitPPU == SchedulerInit /\ \E f \in FillBytes : PPUInit(f)

SpecPPU == InitPPU /\ [][NextPPU]_vars

(***************************************************************************)
(* The properties.                                                         *)
(***************************************************************************)

\* the events in the heap, as the callbacks they carry
InHeap(cb) == \E i \in 0 .. (heap_size - 1) : callback[heap[i]] = cb

\* C1: the timestamp at Parent(i) is at most the timestamp at i, for every
\* index i of the heap but the root, in every state that Add, Cancel of a
\* pending event and AddCycles reach.
HeapInvariant ==
  \A i \in 1 .. (heap_size - 1) : TsAt(Self, Parent(i)) <= TsAt(Self, i)

\* C1 happens: a Remove took the sift-up branch, in a heap of at least five events
HeapInvariantWitness == sift = "up" /\ heap_size >= 5 /\ HeapInvariant

\* C2: the callbacks that one AddCycles invokes run in non-decreasing order of
\* the timestamps they were scheduled for.
FiresInTimestampOrder ==
  \A i, j \in 1 .. Len(fired) : i < j => due[fired[i]] <= due[fired[j]]

\* C2 happens: three events the host added at delays 1, 0, 2 have fired in the
\* order 0, 1, 2
FiresInTimestampOrderWitness ==
  /\ fired = <<2, 1, 3>>
  /\ delayOf = <<1, 0, 2>>
  /\ by = <<0, 0, 0>>
  /\ due = <<1, 0, 2>>

\* C3: the callback of a cancelled event has not been invoked, however far
\* time has advanced.
CancelledNeverFires ==
  \A id \in Ids : status[id] = "cancelled" => fireCount[id] = 0

\* C3 happens: AddCycles has returned with now beyond the timestamp of a
\* cancelled event
CancelledNeverFiresWitness ==
  /\ pc = "idle"
  /\ \E id \in Ids :
       status[id] = "cancelled" /\ due[id] < timestamp_now /\ fireCount[id] = 0

CapacityFailed == fatal = "maximum number of events"

\* C4 as claimed: the assertion of Add fails only in the Add of a 65th event
\* of the caller, 64 events of the caller being pending.
CapacityOf64 == CapacityFailed => Cardinality(Pending) >= kMaxEvents

\* C4 as amended: the sentinel holds one of the 64 slots.  While no assertion
\* has failed the heap holds the sentinel and the pending events of the
\* caller, at most 63 of them; the assertion fails in the Add made with 63
\* events of the caller pending, and in no other.
CapacityOf63 ==
  /\ ~CapacityFailed =>
        /\ heap_size = Cardinality(Pending) + 1
        /\ heap_size <= kMaxEvents
        /\ \A id \in Pending : InHeap(id)
  /\ CapacityFailed =>
        /\ Cardinality(Pending) = kMaxEvents - 1
        /\ heap_size = kMaxEvents + 1

\* C4 happens: the Add made with 63 events of the caller pending has failed
CapacityOf63Witness == CapacityFailed /\ Cardinality(Pending) = 63

\* a step in which AddCycles returns
AddCyclesReturns == pc' = "idle" /\ (pc = "callback" \/ status' = status)

\* C5: when AddCycles(c), called at now = t, returns, now is t + c, no event
\* scheduled for t + c or earlier is pending (those pending at the call and
\* those the callbacks added), and every callback it has invoked was scheduled
\* for t + c or earlier.
DrainsToDeadline ==
  [][AddCyclesReturns =>
       /\ timestamp_now' = deadline'
       /\ \A id \in Pending' : due'[id] > deadline'
       /\ \A i \in 1 .. Len(fired') :
            due'[fired'[i]] <= deadline' /\ status'[fired'[i]] = "fired"]_vars

\* C5 happens: AddCycles has returned after firing an event that a callback of
\* the same drain added, leaving a later event pending
DrainsToDeadlineWitness ==
  /\ pc = "idle"
  /\ timestamp_now = deadline
  /\ \E i, j \in 1 .. Len(fired) : i < j /\ by[fired[j]] = fired[i]
  /\ \E id \in Pending : due[id] > deadline

\* C6: the sentinel, with timestamp 2^64 - 1, is in the heap and its callback
\* has not been invoked, AddCycles having been called with deadlines below
\* 2^64 - 1 only.
SentinelInvariant ==
  /\ \E i \in 0 .. (heap_size - 1) :
       callback[heap[i]] = SentinelCb /\ timestamp[heap[i]] = U64Max
  /\ fatal # "end of the event queue"

\* C6 happens: a drain has fired every event of the caller and stopped at the
\* sentinel
SentinelInvariantWitness ==
  /\ pc = "idle"
  /\ Len(fired) = 3
  /\ heap_size = 1
  /\ callback[heap[0]] = SentinelCb

SentinelPending ==
  \E i \in 0 .. (heap_size - 1) :
    callback[heap[i]] = SentinelCb /\ timestamp[heap[i]] = U64Max /\ handle[heap[i]] = i

\* C7: once Reset has been called, from inside a callback too, no event that
\* was pending before fires, and when the host has the control again the
\* sentinel is pending at the maximum timestamp.
ResetAtAnyTime ==
  resets > 0 =>
    /\ \A id \in Ids : status[id] = "dropped" => fireCount[id] = 0
    /\ pc = "idle" => SentinelPending

\* C8: timestamp_now never decreases, from one state to the next, also inside
\* a drain.
NowNeverDecreases == [][timestamp_now' >= timestamp_now]_vars

\* C8 happens: a callback reads now after an earlier callback of the same
\* drain has read a smaller value, and before AddCycles commits a larger one
NowNeverDecreasesWitness ==
  /\ pc = "callback"
  /\ Len(fired) = 2
  /\ due[fired[1]] < timestamp_now
  /\ timestamp_now < deadline

\* C9: while a callback runs, now is the timestamp its event was scheduled for
\* and the event is still in the heap; an event added by a callback is
\* scheduled at that timestamp plus its delay.
StepProtocol ==
  /\ pc = "callback" =>
        /\ timestamp_now = due[firing]
        /\ callback[event] = firing
        /\ handle[event] < heap_size
        /\ heap[handle[event]] = event
  /\ \A id \in Ids :
        /\ by[id] # 0 => due[id] = due[by[id]] + delayOf[id]
        /\ status[id] = "pending" => timestamp[ptr[id]] = due[id]

\* C9 happens: a callback running before the deadline has added an event
StepProtocolWitness ==
  /\ pc = "callback"
  /\ timestamp_now < deadline
  /\ timestamp_now > 0
  /\ \E id \in Pending :
       by[id] = firing /\ delayOf[id] = 1 /\ timestamp[ptr[id]] = timestamp_now + 1

\* the events in the heap other than id are scheduled no earlier than id
Nearest(id) ==
  \A o \in Ids \ {id} : status[o] \in {"pending", "firing"} => due[o] >= due[id]

\* C10: after Add(d) with d within the range of int, as long as now has not
\* moved and no event in the heap is scheduled earlier, GetTimestampTarget
\* is now + d and GetRemainingCycleCount is d.
DeadlineQuery ==
  \A id \in Pending :
    (delayOf[id] <= IntMax /\ due[id] = timestamp_now + delayOf[id] /\ Nearest(id))
      => /\ GetTimestampTarget = timestamp_now + delayOf[id]
         /\ GetRemainingCycleCount = delayOf[id]

\* C10 happens: the host has added an event at delay 1 after time has
\* advanced, another event being pending for later
DeadlineQueryWitness ==
  /\ pc = "idle"
  /\ timestamp_now > 0
  /\ \E id \in Pending :
       /\ delayOf[id] = 1 /\ due[id] = timestamp_now + 1 /\ Nearest(id)
       /\ GetRemainingCycleCount = 1
       /\ \E o \in Pending : due[o] > due[id]

\* C11: events with equal timestamps fire in the order the heap yields, which
\* is not the order of insertion: three events that the host adds for the same
\* timestamp, in the order 1, 2, 3, and that one AddCycles fires, fire in the
\* order 1, 3, 2.
TiesInHeapOrder ==
  (/\ Len(status) = 3
   /\ by = <<0, 0, 0>>
   /\ due[1] = due[2] /\ due[2] = due[3]
   /\ Len(fired) = 3)
    => fired = <<1, 3, 2>>

\* C11 happens: event 3 has fired before event 2, added before it for the same
\* timestamp
TiesInHeapOrderWitness ==
  /\ pc = "idle"
  /\ delayOf = <<0, 0, 0>>
  /\ by = <<0, 0, 0>>
  /\ due = <<0, 0, 0>>
  /\ fired = <<1, 3, 2>>

\* a step that is a call of a write accessor, or of any accessor
WriteStep(region) ==
  accesses' = accesses + 1 /\ access'.op = "write" /\ access'.region = region

\* C12: a write through WritePRAM or WriteVRAM runs Sync() exactly once, and
\* before the value is stored: Sync() finds the memories as they were before
\* the call.
SyncBeforeWrite ==
  [][(WriteStep("pram") \/ WriteStep("vram"))
       => syncs' = 1 /\ seen' = Sync(pram, oam, vram)]_vars

\* C13: every call of a write accessor, of any region and width, discarded
\* writes included, has called Sync().
EveryWriteSyncs == access.op = "write" => syncs >= 1

\* the bytes in which two memories differ
Changed(mem1, mem2) ==
  {o \in DOMAIN mem1 \cup DOMAIN mem2 : ByteAt(mem1, o) # ByteAt(mem2, o)}

\* a step that is WriteVRAM<u8>(A, v) with A & 0x1FFFF in 0x18000 .. 0x1FFFF
UpperByteWrite ==
  /\ WriteStep("vram")
  /\ access'.width = 1
  /\ BitAnd(access'.address, \h1FFFF) >= \h18000

\* what ReadVRAM<u8>(A with the bit 0x8000 cleared) returns after the step, and
\* what it returned before
MirrorRead == ReadVRAMAt(vram', 1, BitAnd(access'.address, BitNot(\h8000)), 0).value
MirrorReadBefore == ReadVRAMAt(vram, 1, BitAnd(access'.address, BitNot(\h8000)), 0).value

\* C14 as claimed: after WriteVRAM<u8>(A, v) in the upper mirrored range, in a
\* bitmap mode ReadVRAM<u8>(A without the bit 0x8000) returns v; in the other
\* modes the write is discarded and the read returns what it returned before.
MirroredByteWrite ==
  [][UpperByteWrite =>
       IF mode >= 3
       THEN MirrorRead = access'.value
       ELSE vram' = vram /\ MirrorRead = MirrorReadBefore]_vars

\* C14 as amended: in a bitmap mode the read returns v when A & 0x1FFFF is
\* below 0x1C000, the mirrored address being below the limit 0x14000; from
\* 0x1C000 on, and in the other modes for every A of the range, the write is
\* discarded and the read returns what it returned before.
MirroredByteWriteBelowLimit ==
  [][UpperByteWrite =>
       IF mode >= 3 /\ BitAnd(access'.address, \h1FFFF) < \h1C000
       THEN MirrorRead = access'.value
       ELSE vram' = vram /\ MirrorRead = MirrorReadBefore]_vars

\* C14 happens: a byte written in a bitmap mode at 0x18000 .. 0x1BFFF is read
\* at the address without the bit 0x8000
MirroredByteWriteWitness ==
  /\ access.op = "write" /\ access.region = "vram" /\ access.width = 1
  /\ BitAnd(access.address, \h1FFFF) \in \h18000 .. \h1BFFF
  /\ mode >= 3
  /\ access.lo < access.hi
  /\ ReadVRAMAt(vram, 1, BitAnd(access.address, BitNot(\h8000)), 0).value = access.value

\* the offset of the 16-bit word that WriteVRAM<u8>(A, v) addresses
WordOfVRAM(A) ==
  LET low == BitAnd(A, \h1FFFF)
      a == IF low >= \h18000 THEN low - \h8000 ELSE low
  IN  a - (a % 2)

\* C15: an 8-bit write of v to the palette at a sets the two bytes of the
\* word at a & 0x3FE to v and changes no other byte; an 8-bit write to the
\* video memory that is accepted sets the two bytes of the word at the
\* mirrored address & ~1 to v and changes no other byte, and an 8-bit read of
\* either byte returns v.
ByteWriteReplicated ==
  [][/\ (WriteStep("pram") /\ access'.width = 1) =>
          LET w == BitAnd(access'.address, \h3FE)
          IN  /\ ByteAt(pram', w) = access'.value
              /\ ByteAt(pram', w + 1) = access'.value
              /\ Changed(pram, pram') \subseteq {w, w + 1}
     /\ (/\ WriteStep("vram") /\ access'.width = 1
         /\ WordOfVRAM(access'.address) < (IF mode >= 3 THEN \h14000 ELSE \h10000)) =>
          LET w == WordOfVRAM(access'.address)
          IN  /\ ByteAt(vram', w) = access'.value
              /\ ByteAt(vram', w + 1) = access'.value
              /\ Changed(vram, vram') \subseteq {w, w + 1}
              /\ ReadVRAMAt(vram', 1, w, 0).value = access'.value
              /\ ReadVRAMAt(vram', 1, w + 1, 0).value = access'.value]_vars

\* C15 happens: an 8-bit write to an odd address of the palette has set the
\* two bytes of its word, next to a word written before
ByteWriteReplicatedWitness ==
  /\ access.op = "write" /\ access.region = "pram" /\ access.width = 1
  /\ access.address % 2 = 1
  /\ LET w == BitAnd(access.address, \h3FE)
     IN  /\ ByteAt(pram, w) = access.value
         /\ ByteAt(pram, w + 1) = access.value
         /\ \E o \in DOMAIN pram : o \notin {w, w + 1} /\ pram[o] \notin {access.value, fill}

\* C16: WriteOAM<u8>(a, v) leaves every byte of the object-attribute memory as
\* it was; WriteOAM<u16> and WriteOAM<u32> store the bytes of the value from
\* a & 0x3FF on.
ByteWriteToOAMDiscarded ==
  [][WriteStep("oam") =>
       IF access'.width = 1
       THEN oam' = oam /\ Changed(oam, oam') = {}
       ELSE \A k \in 0 .. (access'.width - 1) :
              LET o == BitAnd(access'.address, \h3FF) + k
              IN  o < OAMSize => ByteAt(oam', o) = ByteOf(access'.value, k)]_vars

\* C16 happens: WriteOAM<u8> has been called on a memory that holds a 16-bit
\* value written before, and the memory still holds it
ByteWriteToOAMDiscardedWitness ==
  /\ access.op = "write" /\ access.region = "oam" /\ access.width = 1
  /\ \E o \in DOMAIN oam :
       /\ o + 1 \in DOMAIN oam
       /\ oam[o] = ByteOf(\h4D6F, 0) /\ oam[o + 1] = ByteOf(\h4D6F, 1)
       /\ BitAnd(access.address, \h3FF) \in {o, o + 1}

\* C17: the bytes that an accessor call touches, at every address and width,
\* are bytes of its array.
AccessorsStayInArray ==
  access.lo <= access.hi => 0 <= access.lo /\ access.hi < SizeOf(access.region)

\* the events in the heap, each as its callback and its timestamp
HeapEvents ==
  {<<callback[heap[i]], timestamp[heap[i]]>> : i \in 0 .. (heap_size - 1)}

\* C18: Cancel of a pending event removes that event and no other: heap_size
\* decreases by one, timestamp_now stays, and the other events in the heap, the
\* sentinel among them, stay in it with their timestamps and callbacks.
CancelFrame ==
  [][\A id \in Ids :
       (status[id] = "pending" /\ status'[id] = "cancelled") =>
         /\ heap_size' = heap_size - 1
         /\ timestamp_now' = timestamp_now
         /\ <<id, due[id]>> \in HeapEvents
         /\ HeapEvents' = HeapEvents \ {<<id, due[id]>>}
         /\ <<SentinelCb, U64Max>> \in HeapEvents'
         /\ \A o \in Ids \ {id} : status'[o] = status[o]]_vars

\* C18 happens: the event at the root of a heap of five has been cancelled, and
\* the three other events of the host and the sentinel are in the heap
CancelFrameWitness ==
  /\ pc = "idle" /\ timestamp_now = 0
  /\ Len(status) = 4
  /\ heap_size = 4
  /\ sift = "down"
  /\ \E id \in Ids :
       /\ status[id] = "cancelled"
       /\ \A o \in Ids \ {id} :
            status[o] = "pending" /\ due[o] > due[id] /\ <<o, due[o]>> \in HeapEvents

\* C19: with callbacks that call Add and Cancel of pending events, the event
\* being fired stays at the root until its callback returns and the Remove
\* that follows removes it and no other: the heap holds the sentinel and the
\* events that are pending or being fired, an event has been invoked once when
\* it has fired or time has passed it uncancelled, and never otherwise, and
\* the handle of the event at index i is i.
ExactlyOnce ==
  /\ pc = "callback" => heap[0] = event /\ handle[event] = 0
  /\ \A i \in Slots : handle[heap[i]] = i
  /\ HeapEvents =
       {<<id, due[id]>> : id \in {o \in Ids : status[o] \in {"pending", "firing"}}}
         \cup {<<SentinelCb, U64Max>>}
  /\ heap_size = Cardinality({o \in Ids : status[o] \in {"pending", "firing"}}) + 1
  /\ \A id \in Ids :
       /\ status[id] \in {"pending", "firing", "fired", "cancelled"}
       /\ fireCount[id] = (IF status[id] \in {"firing", "fired"} THEN 1 ELSE 0)
       /\ (due[id] < timestamp_now /\ status[id] # "cancelled") => status[id] = "fired"

\* C19 happens: a drain has returned in which the first callback added two
\* events for timestamps of the drain, one of them was cancelled by a callback
\* and the other one fired
ExactlyOnceWitness ==
  /\ pc = "idle"
  /\ status = <<"fired", "cancelled", "fired">>
  /\ by = <<0, 1, 1>>
  /\ due[2] <= deadline
  /\ fired = <<1, 3>>
  /\ fireCount = <<1, 0, 1>>
  /\ heap_size = 1

\* C20: Cancel with the handle of an event that has fired or has been
\* cancelled removes no event: heap_size is as before and the heap holds the
\* sentinel and the events that are pending or being fired.
StaleCancelHarmless ==
  stale =>
    /\ heap_size = Cardinality({o \in Ids : status[o] \in {"pending", "firing"}}) + 1
    /\ HeapEvents =
         {<<id, due[id]>> : id \in {o \in Ids : status[o] \in {"pending", "firing"}}}
           \cup {<<SentinelCb, U64Max>>}
    /\ SentinelPending

====
